---- MODULE Spec2Model ----
(***************************************************************************)
(* A model of sonLibETree.c: the ETree node (parent pointer, ordered child *)
(* list, label, branch length), its Newick parser and its Newick writer.   *)
(*                                                                         *)
(* Representation                                                          *)
(*   - a node is a positive integer (its address), NULL is 0;              *)
(*   - a C string is a sequence of one-character strings, the NULL char*   *)
(*     is NullStr (a value no string of the model equals);                 *)
(*   - a double is an integer number of 10^-7 units (one decimal place     *)
(*     more than "%f" prints), INFINITY is a value above every finite one; *)
(*     the numbers read are decimal numbers without an exponent;           *)
(*   - assertions are enabled (the build does not define NDEBUG): a failed *)
(*     assertion aborts the parse.                                         *)
(***************************************************************************)
EXTENDS Integers, Sequences, FiniteSets, TLC

VARIABLES
    parent,        \* eTree->parent of every node allocated
    nodes,         \* eTree->nodes, the child list
    label,         \* eTree->label
    branchLength,  \* eTree->branchLength
    live,          \* the nodes allocated and not freed
    freed,         \* the nodes freed
    crashed,       \* the process died (stack overflow, use of freed memory)
    call,          \* the call made last, when it was eTree_setParent: the node, the
                   \* parent it had and the parent given
    input,         \* the text given to the parser
    written,       \* the tree the text was written from, when it was written from one
    cfg,           \* the configuration of the parse of input
    newick,        \* the text eTree_getNewickTreeString returned, and for which node
    reparsed       \* the final configuration of the parse of newick

vars == <<parent, nodes, label, branchLength, live, freed, crashed,
          call, input, written, cfg, newick, reparsed>>

NULL == 0

NullStr == <<"NULL">>

INFINITY == 2147483647

\* Digits "%f" prints after the decimal point.
FracDigits == 6

\* Number of model units in 1.0: a double d is the integer d * Unit.
Unit == 10 ^ (FracDigits + 1)

(***************************************************************************)
(* Bounds.                                                                 *)
(***************************************************************************)
\* Nodes a client allocates.
MaxNodes == 3

\* Labels and branch lengths set at one time in the nodes a client built.
MaxAttr == 1

\* Characters of an input text of the parser.
MaxLen == 4

\* Nodes of a tree written in an input text of the parser.
MaxTextNodes == 3

(***************************************************************************)
(* The list collaborator (struct List): append, remove by value, destroy   *)
(* with the element destructor.                                            *)
(***************************************************************************)
listAppend(list, k) == Append(list, k)

RECURSIVE listRemove(_, _)
listRemove(list, k) ==
    IF list = <<>> THEN <<>>
    ELSE IF Head(list) = k THEN Tail(list)
    ELSE <<Head(list)>> \o listRemove(Tail(list), k)

(***************************************************************************)
(* The heap: the fields of every node ever allocated.                      *)
(***************************************************************************)
Heap == [parent |-> parent, nodes |-> nodes, label |-> label,
         branchLength |-> branchLength, live |-> live, freed |-> freed]

EmptyHeap == [parent |-> <<>>, nodes |-> <<>>, label |-> <<>>,
              branchLength |-> <<>>, live |-> {}, freed |-> {}]

\* The address mallocLocal returns: a never used one.
FreshNode(h) == Cardinality(h.live \cup h.freed) + 1

\* eTree_construct, returning the node at address id.
eTree_constructAt(h, id) ==
    [h EXCEPT !.parent = [n \in (DOMAIN @) \cup {id} |-> IF n = id THEN NULL ELSE @[n]],
              !.nodes = [n \in (DOMAIN @) \cup {id} |-> IF n = id THEN <<>> ELSE @[n]],
              !.label = [n \in (DOMAIN @) \cup {id} |-> IF n = id THEN NullStr ELSE @[n]],
              !.branchLength = [n \in (DOMAIN @) \cup {id} |-> IF n = id THEN INFINITY ELSE @[n]],
              !.live = @ \cup {id},
              !.freed = @ \ {id}]

eTree_getParent(h, eTree) == h.parent[eTree]

\* eTree_setParent without the removal from the old parent's child list.
eTree_setParent_noRemove(h, eTree, newParent) ==
    LET h2 == [h EXCEPT !.parent[eTree] = newParent]
    IN  IF newParent # NULL
        THEN [h2 EXCEPT !.nodes[newParent] = listAppend(@, eTree)]
        ELSE h2

\* eTree_setParent putting the node first in the new parent's child list.
eTree_setParent_first(h, eTree, newParent) ==
    LET h1 == IF eTree_getParent(h, eTree) # NULL
              THEN [h EXCEPT !.nodes[eTree_getParent(h, eTree)] = listRemove(@, eTree)]
              ELSE h
        h2 == [h1 EXCEPT !.parent[eTree] = newParent]
    IN  IF newParent # NULL
        THEN [h2 EXCEPT !.nodes[newParent] = <<eTree>> \o @]
        ELSE h2

eTree_setParent(h, eTree, newParent) ==
    LET h1 == IF eTree_getParent(h, eTree) # NULL
              THEN [h EXCEPT !.nodes[eTree_getParent(h, eTree)] = listRemove(@, eTree)]
              ELSE h
        h2 == [h1 EXCEPT !.parent[eTree] = newParent]
    IN  IF newParent # NULL
        THEN [h2 EXCEPT !.nodes[newParent] = listAppend(@, eTree)]
        ELSE h2

eTree_getChildNumber(h, eTree) == Len(h.nodes[eTree])

eTree_getChild(h, eTree, i) == h.nodes[eTree][i + 1]

eTree_getBranchLength(h, eTree) == h.branchLength[eTree]

eTree_setBranchLength(h, eTree, distance) == [h EXCEPT !.branchLength[eTree] = distance]

eTree_getLabel(h, eTree) == h.label[eTree]

\* stringCopy keeps the characters; a NULL label stays NULL.
eTree_setLabel(h, eTree, newLabel) == [h EXCEPT !.label[eTree] = newLabel]

(***************************************************************************)
(* The string collaborators: substring replace and next-word extraction.   *)
(***************************************************************************)
WhiteSpace == {" ", "\t", "\n"}

Drop(s, k) == SubSeq(s, k + 1, Len(s))

\* The index of the first occurrence of toReplace in s, 0 when there is none.
FirstMatch(s, toReplace) ==
    LET M == {i \in 1..(Len(s) - Len(toReplace) + 1) :
                 SubSeq(s, i, i + Len(toReplace) - 1) = toReplace}
    IN  IF M = {} THEN 0 ELSE CHOOSE i \in M : \A j \in M : i <= j

RECURSIVE string_replace(_, _, _)
\* Every occurrence of toReplace, taken from left to right, replaced.
string_replace(originalString, toReplace, replacement) ==
    LET i == FirstMatch(originalString, toReplace)
    IN  IF i = 0 THEN originalString
        ELSE SubSeq(originalString, 1, i - 1) \o replacement
             \o string_replace(Drop(originalString, i + Len(toReplace) - 1),
                                toReplace, replacement)

RECURSIVE SkipSpace(_)
SkipSpace(s) ==
    IF s # <<>> /\ Head(s) \in WhiteSpace THEN SkipSpace(Tail(s)) ELSE s

RECURSIVE WordLen(_)
WordLen(s) ==
    IF s = <<>> \/ Head(s) \in WhiteSpace THEN 0 ELSE 1 + WordLen(Tail(s))

\* The word returned and the advanced string pointer; NULL when no word is left.
string_getNextWord(string) ==
    LET s == SkipSpace(string)
        k == WordLen(s)
    IN  IF k = 0 THEN [word |-> NullStr, rest |-> s]
        ELSE [word |-> SubSeq(s, 1, k), rest |-> Drop(s, k)]

(***************************************************************************)
(* Number conversions: stringPrint("%f") and sscanf("%lf").                *)
(***************************************************************************)
Digits == <<"0", "1", "2", "3", "4", "5", "6", "7", "8", "9">>

IsDigit(c) == \E i \in 1..10 : Digits[i] = c

DigitVal(c) == (CHOOSE i \in 1..10 : Digits[i] = c) - 1

RECURSIVE DecString(_)
DecString(n) ==
    IF n < 10 THEN <<Digits[n + 1]>>
    ELSE DecString(n \div 10) \o <<Digits[(n % 10) + 1]>>

RECURSIVE FracString(_, _)
FracString(n, width) ==
    IF width = 0 THEN <<>>
    ELSE FracString(n \div 10, width - 1) \o <<Digits[(n % 10) + 1]>>

\* The value "%f" prints, in units of 10^-FracDigits: the nearest one.
RoundToPrinted(a) == (a + (Unit \div (10 ^ FracDigits)) \div 2) \div (Unit \div (10 ^ FracDigits))

\* stringPrint("%f", d)
FormatF(d) ==
    LET a == IF d < 0 THEN 0 - d ELSE d
        m == RoundToPrinted(a)
    IN  (IF d < 0 THEN <<"-">> ELSE <<>>)
        \o DecString(m \div (10 ^ FracDigits)) \o <<".">>
        \o FracString(m % (10 ^ FracDigits), FracDigits)

RECURSIVE DigitRun(_)
DigitRun(s) ==
    IF s # <<>> /\ IsDigit(Head(s)) THEN 1 + DigitRun(Tail(s)) ELSE 0

RECURSIVE DecValue(_)
DecValue(s) ==
    IF s = <<>> THEN 0 ELSE DecValue(SubSeq(s, 1, Len(s) - 1)) * 10 + DigitVal(s[Len(s)])

\* The fraction digits f as a number of units (digits past the unit are dropped).
FracValue(f) ==
    LET g == IF Len(f) > FracDigits + 1 THEN SubSeq(f, 1, FracDigits + 1) ELSE f
    IN  DecValue(g) * (10 ^ (FracDigits + 1 - Len(g)))

\* sscanf(token, "%lf", &distance): the number of conversions and the value of the
\* longest prefix of token that is a decimal number.
sscanf_lf(token) ==
    LET neg == token # <<>> /\ Head(token) = "-"
        s0 == IF token # <<>> /\ Head(token) \in {"-", "+"} THEN Tail(token) ELSE token
        ni == DigitRun(s0)
        s1 == Drop(s0, ni)
        dot == s1 # <<>> /\ Head(s1) = "."
        nf == IF dot THEN DigitRun(Tail(s1)) ELSE 0
        v == DecValue(SubSeq(s0, 1, ni)) * Unit
             + (IF dot THEN FracValue(SubSeq(Tail(s1), 1, nf)) ELSE 0)
    IN  IF ni + nf = 0 THEN [n |-> 0, distance |-> 0]
        ELSE [n |-> 1, distance |-> IF neg THEN 0 - v ELSE v]

(***************************************************************************)
(* Newick tree writer.                                                     *)
(***************************************************************************)
RECURSIVE eTree_getNewickTreeStringP(_, _)
RECURSIVE ChildrenString(_, _, _, _)
\* The for loop writing a ',' after the last child too.
ChildrenString_trailingComma(h, eTree, i, cA) ==
    IF i < eTree_getChildNumber(h, eTree)
    THEN ChildrenString(h, eTree, i + 1,
             cA \o eTree_getNewickTreeStringP(h, eTree_getChild(h, eTree, i)) \o <<",">>)
    ELSE cA

\* The for loop over the children, from child i on, cA being the text so far.
ChildrenString(h, eTree, i, cA) ==
    IF i < eTree_getChildNumber(h, eTree)
    THEN LET cA2 == eTree_getNewickTreeStringP(h, eTree_getChild(h, eTree, i))
             cA3 == IF i + 1 < eTree_getChildNumber(h, eTree)
                    THEN cA \o cA2 \o <<",">>
                    ELSE cA \o cA2
         IN  ChildrenString(h, eTree, i + 1, cA3)
    ELSE cA

\* The writer taking a branch length of 0.0 for an unset one.
eTree_getNewickTreeStringP_zeroUnset(h, eTree) ==
    LET cA0 == IF eTree_getChildNumber(h, eTree) > 0
               THEN ChildrenString(h, eTree, 0, <<"(">>) \o <<")">>
               ELSE <<>>
        cA1 == IF eTree_getLabel(h, eTree) # NullStr
               THEN cA0 \o eTree_getLabel(h, eTree)
               ELSE cA0
    IN  IF eTree_getBranchLength(h, eTree) # INFINITY /\ eTree_getBranchLength(h, eTree) # 0
        THEN cA1 \o <<":">> \o FormatF(eTree_getBranchLength(h, eTree))
        ELSE cA1

eTree_getNewickTreeStringP(h, eTree) ==
    LET cA0 == IF eTree_getChildNumber(h, eTree) > 0
               THEN ChildrenString(h, eTree, 0, <<"(">>) \o <<")">>
               ELSE <<>>
        cA1 == IF eTree_getLabel(h, eTree) # NullStr
               THEN cA0 \o eTree_getLabel(h, eTree)
               ELSE cA0
    IN  IF eTree_getBranchLength(h, eTree) # INFINITY
        THEN cA1 \o <<":">> \o FormatF(eTree_getBranchLength(h, eTree))
        ELSE cA1

eTree_getNewickTreeString(h, eTree) == eTree_getNewickTreeStringP(h, eTree) \o <<";">>

(***************************************************************************)
(* Newick tree parser.  A configuration c of the parser holds the string   *)
(* pointer cA, the current token, the heap the nodes are built in, the     *)
(* stack of the active eTree_parseNewickStringP calls (the node each one   *)
(* constructed), the position pc of the innermost call, the value ret the  *)
(* last finished call returned, and the status of the whole parse.         *)
(* tokensRead counts the words taken from the string; every stack frame    *)
(* records the count at the time of its call.                              *)
(***************************************************************************)
IdleCfg == [cA |-> <<>>, token |-> NullStr, heap |-> EmptyHeap, stack |-> <<>>,
            pc |-> "idle", ret |-> NULL, status |-> "idle",
            tokensRead |-> 0, lastCallRead |-> 1]

Abort(c) == [c EXCEPT !.status = "aborted"]

\* getNextToken without the assertion that a word was left.
getNextToken_unchecked(c) ==
    IF c.status = "aborted" \/ c.token = NullStr THEN Abort(c)
    ELSE LET w == string_getNextWord(c.cA)
         IN  [c EXCEPT !.token = w.word, !.cA = w.rest,
                       !.tokensRead = IF w.word = NullStr THEN @ ELSE @ + 1]

\* eTree_parseNewickTreeString_getNextToken
getNextToken(c) ==
    IF c.status = "aborted" \/ c.token = NullStr THEN Abort(c)
    ELSE LET w == string_getNextWord(c.cA)
             c1 == [c EXCEPT !.token = w.word, !.cA = w.rest]
         IN  IF w.word = NullStr THEN Abort(c1)
             ELSE [c1 EXCEPT !.tokensRead = @ + 1]

\* eTree_parseNewickString_getLabel
getLabel(c, eTree) ==
    IF c.status = "aborted" THEN c
    ELSE IF Head(c.token) \notin {":", ",", ";", ")"}
    THEN getNextToken([c EXCEPT !.heap = eTree_setLabel(@, eTree, c.token)])
    ELSE c

\* getBranchLength reading the number and not storing it.
getBranchLength_notStored(c, eTree) ==
    IF c.status = "aborted" THEN c
    ELSE IF Head(c.token) = ":"
    THEN LET c1 == getNextToken(c)
         IN  IF c1.status = "aborted" THEN c1
             ELSE IF sscanf_lf(c1.token).n # 1 THEN Abort(c1)
             ELSE getNextToken(c1)
    ELSE c

\* eTree_parseNewickString_getBranchLength
getBranchLength(c, eTree) ==
    IF c.status = "aborted" THEN c
    ELSE IF Head(c.token) = ":"
    THEN LET c1 == getNextToken(c)
             r == sscanf_lf(c1.token)
         IN  IF c1.status = "aborted" THEN c1
             ELSE IF r.n # 1 THEN Abort(c1)
             ELSE getNextToken([c1 EXCEPT !.heap = eTree_setBranchLength(@, eTree, r.distance)])
    ELSE c

\* eTree_parseNewickStringP, lines 108-111: construct the node, open a group.
parseP_enter(c) ==
    LET id == FreshNode(c.heap)
        c1 == [c EXCEPT !.heap = eTree_constructAt(@, id),
                        !.stack = Append(@, [eTree |-> id, readAtCall |-> c.tokensRead])]
    IN  IF Head(c1.token) = "("
        THEN IF Len(c1.token) # 1 THEN Abort(c1)
             ELSE [getNextToken(c1) EXCEPT !.pc = "call"]
        ELSE [c1 EXCEPT !.pc = "suffix"]

\* eTree_parseNewickStringP, lines 113-123: attach the child parsed, then go on
\* with the next child after a ',' or close the group at a ')'.
parseP_loop(c) ==
    LET eTree == c.stack[Len(c.stack)].eTree
        c1 == [c EXCEPT !.heap = eTree_setParent(@, c.ret, eTree)]
    IN  IF Len(c1.token) # 1 THEN Abort(c1)
        ELSE IF Head(c1.token) = ","
        THEN [getNextToken(c1) EXCEPT !.pc = "call"]
        ELSE IF Head(c1.token) # ")" THEN Abort(c1)
        ELSE [getNextToken(c1) EXCEPT !.pc = "suffix"]

\* The end of the call: pop its frame and return its node.  lastCallRead is the
\* number of tokens the call read, when it was a recursive call.
Return(c) ==
    LET frame == c.stack[Len(c.stack)]
    IN  [c EXCEPT !.stack = SubSeq(@, 1, Len(@) - 1),
                  !.ret = frame.eTree,
                  !.lastCallRead = IF Len(c.stack) > 1
                                   THEN c.tokensRead - frame.readAtCall ELSE @,
                  !.pc = IF Len(c.stack) = 1 THEN "top" ELSE "loop"]

\* parseP_suffix looking for the branch length before the label.
parseP_suffix_lengthFirst(c) ==
    LET frame == c.stack[Len(c.stack)]
        c1 == getLabel(getBranchLength(c, frame.eTree), frame.eTree)
    IN  IF c1.status = "aborted" THEN c1
        ELSE IF Head(c1.token) \notin {",", ";", ")"} THEN Abort(c1)
        ELSE Return(c1)

\* eTree_parseNewickStringP, lines 125-128: label, branch length, return.
parseP_suffix(c) ==
    LET frame == c.stack[Len(c.stack)]
        c1 == getBranchLength(getLabel(c, frame.eTree), frame.eTree)
    IN  IF c1.status = "aborted" THEN c1
        ELSE IF Head(c1.token) \notin {",", ";", ")"} THEN Abort(c1)
        ELSE Return(c1)

\* eTree_parseNewickString, lines 133-148: separate the structural characters,
\* take the first token and call eTree_parseNewickStringP.
Separated(string) ==
    LET cA1 == string_replace(string, <<"(">>, <<" ", "(", " ">>)
        cA2 == string_replace(cA1, <<")">>, <<" ", ")", " ">>)
        cA3 == string_replace(cA2, <<":">>, <<" ", ":", " ">>)
        cA4 == string_replace(cA3, <<",">>, <<" ", ",", " ">>)
    IN  string_replace(cA4, <<";">>, <<" ", ";", " ">>)

parse_start(string) ==
    LET w == string_getNextWord(Separated(string))
        c == [IdleCfg EXCEPT !.cA = w.rest, !.token = w.word, !.status = "running",
                             !.pc = "call"]
    IN  IF w.word = NullStr THEN Abort(c) ELSE [c EXCEPT !.tokensRead = 1]

\* eTree_parseNewickString, lines 149-152: the tree must end at a ';'.
parse_finish(c) ==
    IF Head(c.token) # ";" THEN Abort(c)
    ELSE [c EXCEPT !.status = "returned", !.pc = "done"]

\* One step of a running parse.
ParseStep(c) ==
    CASE c.pc = "call" -> parseP_enter(c)
      [] c.pc = "loop" -> parseP_loop(c)
      [] c.pc = "suffix" -> parseP_suffix(c)
      [] c.pc = "top" -> parse_finish(c)

RECURSIVE RunParse(_)
RunParse(c) == IF c.status = "running" THEN RunParse(ParseStep(c)) ELSE c

\* eTree_parseNewickString as a whole: the final configuration of the parse.
eTree_parseNewickString(string) == RunParse(parse_start(string))

(***************************************************************************)
(* Destruction: destructList calls the element destructor eTree_destruct   *)
(* on every child, so the whole subtree under the child lists is freed.    *)
(***************************************************************************)
Range(list) == {list[i] : i \in 1..Len(list)}

ChildrenOf(h, S) == UNION {Range(h.nodes[n]) : n \in S}

RECURSIVE ReachDown(_, _)
\* The nodes reached from the set S of nodes by following child lists.
ReachDown(h, S) ==
    LET T == S \cup ChildrenOf(h, S)
    IN  IF T = S THEN S ELSE ReachDown(h, T)

\* Some node under eTree has itself under it: the recursion over the child
\* lists never ends.
CyclicBelow(h, eTree) ==
    \E n \in ReachDown(h, {eTree}) : n \in ReachDown(h, Range(h.nodes[n]))

destructList(h, eTree) == ReachDown(h, Range(h.nodes[eTree]))

eTree_destruct(h, eTree) ==
    LET gone == destructList(h, eTree) \cup {eTree}
    IN  [h EXCEPT !.live = @ \ gone, !.freed = @ \cup gone]

(***************************************************************************)
(* The calls a client makes.                                               *)
(***************************************************************************)
\* The labels and the branch lengths (0.0, 0.0000003 and 1.5) a client of the
\* codec sets, and the label and the branch length a client that only
\* reparents sets.
Labels == {<<>>, <<"A">>}

Lengths == {0, 3, 15 * (Unit \div 10)}

OneLabel == {<<"A">>}

OneLength == {0}

NoCall == [op |-> "none", eTree |-> NULL, from |-> NULL, parent |-> NULL]

NoNewick == [eTree |-> NULL, string |-> NullStr]

AttrCount(h) == Cardinality({n \in h.live : h.label[n] # NullStr})
                + Cardinality({n \in h.live : h.branchLength[n] # INFINITY})

\* The client is still building: nothing was written or parsed yet.
Building == ~crashed /\ newick = NoNewick /\ cfg = IdleCfg

SetHeap(h) ==
    /\ parent' = h.parent
    /\ nodes' = h.nodes
    /\ label' = h.label
    /\ branchLength' = h.branchLength
    /\ live' = h.live
    /\ freed' = h.freed

heapVars == <<parent, nodes, label, branchLength, live, freed>>

NoTree == [label |-> NullStr]

Init ==
    /\ parent = <<>>
    /\ nodes = <<>>
    /\ label = <<>>
    /\ branchLength = <<>>
    /\ live = {}
    /\ freed = {}
    /\ crashed = FALSE
    /\ call = NoCall
    /\ input = NullStr
    /\ written = NoTree
    /\ cfg = IdleCfg
    /\ newick = NoNewick
    /\ reparsed = IdleCfg

\* eTree_construct; malloc returns an address never used before.
Construct ==
    /\ Building
    /\ Cardinality(live \cup freed) < MaxNodes
    /\ SetHeap(eTree_constructAt(Heap, FreshNode(Heap)))
    /\ call' = NoCall
    /\ UNCHANGED <<crashed, input, written, cfg, newick, reparsed>>

SetParent ==
    /\ Building
    /\ \E eTree \in live, newParent \in live \cup {NULL} :
          /\ SetHeap(eTree_setParent(Heap, eTree, newParent))
          /\ call' = [op |-> "setParent", eTree |-> eTree,
                      from |-> eTree_getParent(Heap, eTree), parent |-> newParent]
    /\ UNCHANGED <<crashed, input, written, cfg, newick, reparsed>>

\* eTree_setParent called by a client that builds a tree: the new parent is not
\* the node itself nor a node below it.
SetParentInTree ==
    /\ Building
    /\ \E eTree \in live :
          \E newParent \in (live \cup {NULL}) \ ReachDown(Heap, {eTree}) :
             SetHeap(eTree_setParent(Heap, eTree, newParent))
    /\ UNCHANGED <<crashed, call, input, written, cfg, newick, reparsed>>

SetLabel(values) ==
    /\ Building
    /\ \E eTree \in live, newLabel \in values \cup {NullStr} :
          /\ AttrCount(eTree_setLabel(Heap, eTree, newLabel)) <= MaxAttr
          /\ SetHeap(eTree_setLabel(Heap, eTree, newLabel))
    /\ call' = NoCall
    /\ UNCHANGED <<crashed, input, written, cfg, newick, reparsed>>

SetBranchLength(values) ==
    /\ Building
    /\ \E eTree \in live, distance \in values \cup {INFINITY} :
          /\ AttrCount(eTree_setBranchLength(Heap, eTree, distance)) <= MaxAttr
          /\ SetHeap(eTree_setBranchLength(Heap, eTree, distance))
    /\ call' = NoCall
    /\ UNCHANGED <<crashed, input, written, cfg, newick, reparsed>>

\* eTree_destruct.  With a cycle under the node the recursion never ends and
\* the stack overflows; with a freed node under it the destructor frees freed
\* memory, after which the call may crash or go on.
Destruct ==
    /\ Building
    /\ \E eTree \in live :
          IF CyclicBelow(Heap, eTree)
          THEN crashed' = TRUE /\ UNCHANGED heapVars
          ELSE /\ SetHeap(eTree_destruct(Heap, eTree))
               /\ IF destructList(Heap, eTree) \cap freed # {}
                  THEN crashed' \in BOOLEAN
                  ELSE UNCHANGED crashed
    /\ call' = NoCall
    /\ UNCHANGED <<input, written, cfg, newick, reparsed>>

\* eTree_getNewickTreeString on a root of the forest built.
GetNewickTreeString ==
    /\ Building
    /\ \E eTree \in live :
          /\ parent[eTree] = NULL
          /\ newick' = [eTree |-> eTree, string |-> eTree_getNewickTreeString(Heap, eTree)]
    /\ UNCHANGED <<heapVars, crashed, call, input, written, cfg, reparsed>>

\* eTree_parseNewickString on the text written, run to its end.
ParseNewickString ==
    /\ newick # NoNewick
    /\ reparsed = IdleCfg
    /\ reparsed' = eTree_parseNewickString(newick.string)
    /\ UNCHANGED <<heapVars, crashed, call, input, written, cfg, newick>>

(***************************************************************************)
(* The parser, step by step, on an input string.                           *)
(***************************************************************************)
\* eTree_parseNewickString called on a text: up to the first call of
\* eTree_parseNewickStringP.
ParseStart(text, tree) ==
    /\ cfg = IdleCfg
    /\ input = NullStr
    /\ input' = text
    /\ written' = tree
    /\ cfg' = parse_start(text)
    /\ UNCHANGED <<heapVars, crashed, call, newick, reparsed>>

ParseEnter ==
    /\ cfg.status = "running" /\ cfg.pc = "call"
    /\ cfg' = parseP_enter(cfg)
    /\ UNCHANGED <<heapVars, crashed, call, input, written, newick, reparsed>>

ParseLoop ==
    /\ cfg.status = "running" /\ cfg.pc = "loop"
    /\ cfg' = parseP_loop(cfg)
    /\ UNCHANGED <<heapVars, crashed, call, input, written, newick, reparsed>>

ParseSuffix ==
    /\ cfg.status = "running" /\ cfg.pc = "suffix"
    /\ cfg' = parseP_suffix(cfg)
    /\ UNCHANGED <<heapVars, crashed, call, input, written, newick, reparsed>>

ParseFinish ==
    /\ cfg.status = "running" /\ cfg.pc = "top"
    /\ cfg' = parse_finish(cfg)
    /\ UNCHANGED <<heapVars, crashed, call, input, written, newick, reparsed>>

\* eTree_getNewickTreeString on the tree the parser returned.
WriteParsed ==
    /\ cfg.status = "returned"
    /\ newick = NoNewick
    /\ newick' = [eTree |-> cfg.ret, string |-> eTree_getNewickTreeString(cfg.heap, cfg.ret)]
    /\ UNCHANGED <<heapVars, crashed, call, input, written, cfg, reparsed>>

(***************************************************************************)
(* Specifications.                                                         *)
(*   Spec          clients that construct nodes, reparent them and set     *)
(*                 their labels and branch lengths;                        *)
(*   SpecDestruct  clients that also destroy nodes;                        *)
(*   SpecCodec     clients that build a tree, write it and parse the text; *)
(*   SpecParse     the parser run step by step on an input text, the tree  *)
(*                 it returns written and parsed again.                    *)
(***************************************************************************)
Next ==
    \/ Construct
    \/ SetParent
    \/ SetLabel(OneLabel)
    \/ SetBranchLength(OneLength)

Spec == Init /\ [][Next]_vars

NextDestruct ==
    \/ Construct
    \/ SetParent
    \/ Destruct

SpecDestruct == Init /\ [][NextDestruct]_vars

NextCodec ==
    \/ Construct
    \/ SetParentInTree
    \/ SetLabel(Labels)
    \/ SetBranchLength(Lengths)
    \/ GetNewickTreeString
    \/ ParseNewickString

SpecCodec == Init /\ [][NextCodec]_vars

(***************************************************************************)
(* The input texts of the parser: every text of at most MaxLen characters  *)
(* of Alphabet, the text of every tree of at most MaxTextNodes nodes       *)
(* written after the grammar                                               *)
(*    Tree ::= Subtree ';'                                                 *)
(*    Subtree ::= '(' Subtree (',' Subtree)* ')' Label? Length? |          *)
(*                Label? Length?           Length ::= ':' Number           *)
(* and the texts of MoreInputs.                                            *)
(***************************************************************************)
Alphabet == {"(", ")", ",", ":", ";", " ", "A", "0"}

ShortInputs == UNION {[1..k -> Alphabet] : k \in 0..MaxLen}

\* What is written for a label (nothing: no label) and for a length
\* (nothing: no length), with the value the number written denotes.
TextLabels == {NullStr, <<"A">>, <<"B", "1">>}

TextLengths == {[text |-> NullStr, value |-> INFINITY],
                [text |-> <<"0", ".", "2", "5">>, value |-> 25 * (Unit \div 100)]}

RECURSIVE TreesOfSize(_)
RECURSIVE ForestsOfSize(_)
\* The trees of n nodes, as [label, branchLength, children].
TreesOfSize(n) ==
    {[label |-> l, branchLength |-> d, children |-> cs] :
        l \in TextLabels, d \in TextLengths, cs \in ForestsOfSize(n - 1)}

\* The sequences of trees of n nodes in all.
ForestsOfSize(n) ==
    IF n = 0 THEN {<<>>}
    ELSE UNION {{<<t>> \o f : t \in TreesOfSize(k), f \in ForestsOfSize(n - k)} : k \in 1..n}

RECURSIVE WriteSubtree(_)
RECURSIVE WriteGroup(_, _)
\* The text of the subtrees of a group from the i-th on, after the grammar.
WriteGroup(children, i) ==
    IF i > Len(children) THEN <<>>
    ELSE (IF i > 1 THEN <<",">> ELSE <<>>)
         \o WriteSubtree(children[i]) \o WriteGroup(children, i + 1)

\* The text of a subtree, after the grammar.
WriteSubtree(t) ==
    (IF t.children # <<>> THEN <<"(">> \o WriteGroup(t.children, 1) \o <<")">> ELSE <<>>)
    \o (IF t.label # NullStr THEN t.label ELSE <<>>)
    \o (IF t.branchLength.text # NullStr THEN <<":">> \o t.branchLength.text ELSE <<>>)

WriteTree(t) == WriteSubtree(t) \o <<";">>

GrammarTrees == UNION {TreesOfSize(n) : n \in 1..MaxTextNodes}

\* The scenario "(A:1,B:2,(C:3,D:4):5);", a length of seven decimals, texts
\* with white space, a text after the ';', a number followed by letters.
Scenario == <<"(", "A", ":", "1", ",", "B", ":", "2", ",", "(", "C", ":", "3", ",",
              "D", ":", "4", ")", ":", "5", ")", ";">>

MoreInputs == {Scenario,
               <<"A", ":", "0", ".", "0", "0", "0", "0", "0", "0", "3", ";">>,
               <<"(", "A", ":", "1", ".", "2", "5", "0", "0", "0", "0", "7", ",", "B", ")", ";">>,
               <<" ", "(", " ", "A", " ", ",", "\n", "B", ":", " ", "2", ")", "\t", ";">>,
               <<"(", "A", ",", "B", ")", ";", "A", ")">>,
               <<"(", "A", ":", "1", "B", ",", "B", ")", ";">>,
               <<"(", "A", ",", "B", ":", "B", ")", ";">>,
               <<"(", "(", "A", ",", "B", ")", ",", "A", ";">>}

Leaf(l, text, value) ==
    [label |-> l, branchLength |-> [text |-> text, value |-> value], children |-> <<>>]

ScenarioTree ==
    [label |-> NullStr, branchLength |-> [text |-> NullStr, value |-> INFINITY],
     children |-> <<Leaf(<<"A">>, <<"1">>, Unit), Leaf(<<"B">>, <<"2">>, 2 * Unit),
                    [label |-> NullStr, branchLength |-> [text |-> <<"5">>, value |-> 5 * Unit],
                     children |-> <<Leaf(<<"C">>, <<"3">>, 3 * Unit),
                                    Leaf(<<"D">>, <<"4">>, 4 * Unit)>>]>>]

\* The parser called on a text, and on the text of a tree written after the
\* grammar.
ParseText ==
    /\ cfg = IdleCfg /\ input = NullStr
    /\ \E text \in ShortInputs \cup MoreInputs : ParseStart(text, NoTree)

ParseGrammarText ==
    /\ cfg = IdleCfg /\ input = NullStr
    /\ \E tree \in GrammarTrees \cup {ScenarioTree} : ParseStart(WriteTree(tree), tree)

NextParse ==
    \/ ParseText
    \/ ParseGrammarText
    \/ ParseEnter
    \/ ParseLoop
    \/ ParseSuffix
    \/ ParseFinish
    \/ WriteParsed
    \/ ParseNewickString

\* A step of the parse that was started.
ParseRuns == ParseEnter \/ ParseLoop \/ ParseSuffix \/ ParseFinish

\* The parser is a sequential program: once called, it takes its next step as
\* long as it has one.  This is WF_cfg(ParseRuns) with the condition under
\* which ParseRuns is enabled written out: the parse is running.
ParserGoesOn ==
    \/ []<>(cfg.status # "running")
    \/ []<><<ParseRuns>>_cfg

SpecParse == Init /\ [][NextParse]_vars /\ ParserGoesOn

(***************************************************************************)
(* Properties.                                                             *)
(***************************************************************************)
Count(list, x) == Cardinality({i \in 1..Len(list) : list[i] = x})

Without(list, x) == SelectSeq(list, LAMBDA y : y # x)

RECURSIVE ReachUp(_, _)
\* The nodes reached from the set S of nodes by following parent pointers.
ReachUp(h, S) ==
    LET T == S \cup ({h.parent[n] : n \in S} \ {NULL})
    IN  IF T = S THEN S ELSE ReachUp(h, T)

Ancestors(h, n) == IF h.parent[n] = NULL THEN {} ELSE ReachUp(h, {h.parent[n]})

RECURSIVE TreeOf(_, _)
\* The tree under node n: its label, its branch length, its children in order.
TreeOf(h, n) ==
    [label |-> h.label[n], branchLength |-> h.branchLength[n],
     children |-> [i \in 1..Len(h.nodes[n]) |-> TreeOf(h, h.nodes[n][i])]]

\* A branch length rounded to the FracDigits decimals that are written.
SixDecimals(d) ==
    LET step == Unit \div (10 ^ FracDigits)
        a == IF d < 0 THEN 0 - d ELSE d
        r == ((a + step \div 2) \div step) * step
    IN  IF d = INFINITY THEN INFINITY ELSE IF d < 0 THEN 0 - r ELSE r

RECURSIVE AsWritten(_)
\* The tree t as its text tells it: an empty label is no label, a branch length
\* has the decimals written.
AsWritten(t) ==
    [label |-> IF t.label = <<>> THEN NullStr ELSE t.label,
     branchLength |-> SixDecimals(t.branchLength),
     children |-> [i \in DOMAIN t.children |-> AsWritten(t.children[i])]]

RECURSIVE Meaning(_)
\* The tree a text written after the grammar stands for.
Meaning(t) ==
    [label |-> t.label, branchLength |-> t.branchLength.value,
     children |-> [i \in DOMAIN t.children |-> Meaning(t.children[i])]]

RECURSIVE Words(_)
Words(s) ==
    LET w == string_getNextWord(s)
    IN  IF w.word = NullStr THEN <<>> ELSE <<w.word>> \o Words(w.rest)

\* The tokens of a text.
Tokens(text) == Words(Separated(text))

Depth(toks, k) == Cardinality({i \in 1..k : toks[i] = <<"(">>})
                  - Cardinality({i \in 1..k : toks[i] = <<")">>})

\* Among the first n tokens a ')' closes nothing or a '(' is not closed.
ParenMismatch(toks, n) ==
    \/ \E k \in 1..n : Depth(toks, k) < 0
    \/ Depth(toks, n) # 0

\* The token is a decimal number, all of it.
IsNumber(tok) ==
    LET s0 == IF Head(tok) \in {"-", "+"} THEN Tail(tok) ELSE tok
    IN  /\ \E i \in 1..Len(s0) : IsDigit(s0[i])
        /\ \A i \in 1..Len(s0) : IsDigit(s0[i]) \/ s0[i] = "."
        /\ Count(s0, ".") <= 1

\* A grammar error anywhere in the text: parentheses, the final ";", a length.
GrammarError(toks) ==
    \/ ParenMismatch(toks, Len(toks))
    \/ toks = <<>> \/ toks[Len(toks)] # <<";">>
    \/ \E k \in 1..Len(toks) :
          toks[k] = <<":">> /\ (k = Len(toks) \/ ~IsNumber(toks[k + 1]))

ParseEnded(c) == c.status \in {"returned", "aborted"}

\* C1: every node with a parent occurs exactly once in the child list of its
\* parent and in no other child list, and every entry of a node's child list
\* has that node as its parent.
C1_ChildListsMatchParents ==
    /\ \A n \in live : parent[n] # NULL => Count(nodes[parent[n]], n) = 1
    /\ \A n \in live, q \in live : q # parent[n] => Count(nodes[q], n) = 0
    /\ \A q \in live : \A i \in 1..Len(nodes[q]) : parent[nodes[q][i]] = q

\* A node with a parent was given another parent, which has it after another child.
C1_Witness ==
    /\ call.op = "setParent"
    /\ call.from # NULL /\ call.parent # NULL /\ call.from # call.parent
    /\ Len(nodes[call.parent]) >= 2

\* C2: the parent relation is acyclic: no node is reached from itself by
\* following parent pointers.
C2_ParentsAcyclic == \A n \in live : n \notin Ancestors(Heap, n)

\* C5: eTree_setParent(n, p) on a node n that is a child of q removes n from
\* the child list of q, makes n the last child of p (no child at all when p is
\* NULL), keeps the order of the other children of q and of p, and changes no
\* other parent, child list, label or branch length.
C5_SetParentFrame ==
    [][(call'.op = "setParent" /\ parent[call'.eTree] # NULL) =>
          LET n == call'.eTree
              p == call'.parent
              q == parent[n]
          IN  /\ parent' = [parent EXCEPT ![n] = p]
              /\ nodes' = [m \in DOMAIN nodes |->
                             IF m = p THEN Without(nodes[m], n) \o <<n>>
                             ELSE IF m = q THEN Without(nodes[m], n)
                             ELSE nodes[m]]
              /\ p # NULL => /\ nodes'[p][Len(nodes'[p])] = n
                             /\ Count(nodes'[p], n) = 1
              /\ label' = label
              /\ branchLength' = branchLength
              /\ live' = live]_vars

\* A labelled node was moved from its parent to a node that had a child already.
C5_Witness ==
    /\ call.op = "setParent"
    /\ call.from # NULL /\ call.parent # NULL /\ call.from # call.parent
    /\ Len(nodes[call.parent]) >= 2
    /\ nodes[call.parent][Len(nodes[call.parent])] = call.eTree
    /\ \E m \in live : label[m] # NullStr

\* C10: no node that was not destroyed refers to a destroyed node, neither
\* in its child list nor as its parent.
C10_NoReferenceToDestroyed ==
    \A n \in live : parent[n] \notin freed /\ Range(nodes[n]) \cap freed = {}

\* C3 as stated: the text written for a tree parses to a tree with the same
\* topology, the same labels and the same branch lengths.
C3_RoundTripExact ==
    reparsed.status # "idle" =>
        /\ reparsed.status = "returned"
        /\ TreeOf(reparsed.heap, reparsed.ret) = TreeOf(Heap, newick.eTree)

\* C3, amended: the text written for a tree parses to a tree with the same
\* topology, the same labels but for no label where the label is empty, and
\* the branch lengths rounded to the six decimals written.
C3_RoundTripAsWritten ==
    reparsed.status # "idle" =>
        /\ reparsed.status = "returned"
        /\ TreeOf(reparsed.heap, reparsed.ret) = AsWritten(TreeOf(Heap, newick.eTree))

\* A tree of a root and two children, one with a label or a branch length, was
\* written and parsed.
C3_Witness ==
    /\ reparsed.status = "returned"
    /\ Len(nodes[newick.eTree]) = 2
    /\ \E m \in Range(nodes[newick.eTree]) :
          label[m] # NullStr \/ branchLength[m] # INFINITY

\* C7: a constructed node has the unset branch length, and the text written for
\* a node has one ':' for every node under it whose branch length is set and
\* no other, a branch length of 0.0 being written as ":0.000000".
C7_LengthWrittenIffSet ==
    /\ [][\A n \in live' \ live : branchLength'[n] = INFINITY]_vars
    /\ [](\A n \in live :
            LET cA == eTree_getNewickTreeStringP(Heap, n)
                zero == <<":", "0", ".", "0", "0", "0", "0", "0", "0">>
            IN  /\ Count(cA, ":") = Cardinality({m \in ReachDown(Heap, {n}) :
                                                   branchLength[m] # INFINITY})
                /\ branchLength[n] = 0 =>
                      /\ Len(cA) >= Len(zero)
                      /\ SubSeq(cA, Len(cA) - Len(zero) + 1, Len(cA)) = zero)

\* A tree with a child of branch length 0.0 and a child of unset branch length
\* was written.
C7_Witness ==
    /\ newick # NoNewick
    /\ \E m, k \in Range(nodes[newick.eTree]) :
          branchLength[m] = 0 /\ branchLength[k] = INFINITY
    /\ Count(newick.string, ":") = 1

\* C6: a text written after the grammar parses to the tree written: the
\* children of a group in the order written, the label written or none, the
\* branch length written or none.
C6_ParseMirrorsText ==
    (written # NoTree /\ ParseEnded(cfg)) =>
        /\ cfg.status = "returned"
        /\ TreeOf(cfg.heap, cfg.ret) = Meaning(written)

\* The scenario "(A:1,B:2,(C:3,D:4):5);" was parsed.
C6_Witness ==
    /\ input = Scenario
    /\ cfg.status = "returned"
    /\ Len(cfg.heap.nodes[cfg.ret]) = 3

\* C4: the parse of a text with a grammar error aborts: a
\* parenthesis without its match, no ';' at the end, a ':' followed by a token
\* that is not a number.
C4_GrammarErrorsAbort ==
    (ParseEnded(cfg) /\ GrammarError(Tokens(input))) => cfg.status = "aborted"

\* C8 as stated: the text written for a parsed tree parses to an equal tree.
C8_ReparseEqual ==
    reparsed.status # "idle" =>
        /\ reparsed.status = "returned"
        /\ TreeOf(reparsed.heap, reparsed.ret) = TreeOf(cfg.heap, cfg.ret)

\* C8, amended: the text written for a parsed tree parses to a tree equal but
\* for the branch lengths, which are rounded to the six decimals written.
C8_ReparseAsWritten ==
    reparsed.status # "idle" =>
        /\ reparsed.status = "returned"
        /\ TreeOf(reparsed.heap, reparsed.ret) = AsWritten(TreeOf(cfg.heap, cfg.ret))

\* A text with a group, labels and a branch length of seven decimals was
\* parsed, written and parsed again.
C8_Witness ==
    /\ reparsed.status = "returned"
    /\ \E n \in cfg.heap.live :
          /\ cfg.heap.branchLength[n] # INFINITY
          /\ SixDecimals(cfg.heap.branchLength[n]) # cfg.heap.branchLength[n]
    /\ Len(cfg.heap.nodes[cfg.ret]) >= 2

\* C9 as stated: every recursive call of eTree_parseNewickStringP reads at
\* least one token.
C9_EveryCallReadsAToken == cfg.lastCallRead >= 1

\* The tokens not read yet.
TokensLeft(c) == Len(Words(c.cA))

Rank(c) ==
    CASE c.pc = "call" -> 3
      [] c.pc = "suffix" -> 2
      [] c.pc \in {"loop", "top"} -> 1
      [] OTHER -> 0

\* A natural number that bounds the steps a running parse has left.
Measure(c) == IF c.status = "running" THEN 4 * TokensLeft(c) + Rank(c) ELSE 0

\* C9, amended: the parse of a text ends, returning a tree or aborting: a
\* running parse has a next step, every step lowers Measure, a natural number,
\* and a parse that goes on comes to its end.  Every call of eTree_parseNewickStringP is made right after a token
\* was read, so that no more calls are made than tokens read, and every loop
\* iteration reads the ',' or the ')' that follows the subtree; a token is read
\* only when one is left, and the parse aborts when none is.
C9_ParseTerminates ==
    /\ (input # NullStr) ~> ParseEnded(cfg)
    /\ [][cfg.status = "running" => Measure(cfg') < Measure(cfg)]_cfg
    /\ [](cfg.status = "running" =>
             /\ cfg.pc \in {"call", "loop", "suffix", "top"}
             /\ cfg.pc \in {"loop", "suffix"} => cfg.stack # <<>>
             /\ cfg.token # NullStr)
    /\ [][(cfg'.status = "running" /\ cfg'.pc = "call") =>
             cfg'.tokensRead = cfg.tokensRead + 1]_cfg
    /\ [][(cfg.pc = "loop" /\ cfg'.status = "running") =>
             cfg'.tokensRead = cfg.tokensRead + 1]_cfg
    /\ [](Cardinality(cfg.heap.live) <= cfg.tokensRead)
    /\ [](cfg.tokensRead + TokensLeft(cfg) = Len(Tokens(input)) \/ input = NullStr)
    /\ []((cfg.status # "idle" /\ cfg.token = NullStr) => cfg.status = "aborted")

\* The parse of a text with a group aborted where no token was left.
C9_Witness ==
    /\ cfg.status = "aborted"
    /\ cfg.token = NullStr
    /\ cfg.tokensRead >= 3
    /\ Cardinality(cfg.heap.live) >= 2

====
